---- MODULE Spec2Model ----
(***************************************************************************)
(* Model of the AP platform's core: the invoice pipeline job, the matching *)
(* engine's persistence step, the approval service, the admin endpoints    *)
(* that write invoice status, exception records, the audit log and the     *)
(* rule-version lifecycle.                                                  *)
(*                                                                         *)
(* The relational store is modelled at commit granularity: the variables   *)
(* hold the COMMITTED rows; every action is one transaction (the reads and *)
(* writes of a handler up to its next commit).  A handler that commits     *)
(* several times is a sequence of actions, its position kept in sess[p].pc *)
(* together with what its ORM session has cached (expire_on_commit=False). *)
(* Isolation is PostgreSQL's default READ COMMITTED: a statement sees what *)
(* is committed when it runs, and an UPDATE by primary key overwrites.     *)
(***************************************************************************)
EXTENDS Integers, Sequences, FiniteSets, TLC

VARIABLES
    inv,        \* the invoice row: [status, total, fraud_score, is_duplicate]
    invLines,   \* InvoiceLineItem rows of the invoice (sequence of line classes)
    mrs,        \* MatchResult rows: set of [id, match_status, match_type]
    lims,       \* LineItemMatch rows: set of [mr, line, status]
    excs,       \* ExceptionRecord rows: sequence of [code, status]
    tasks,      \* ApprovalTask rows: sequence of [status, required, approver, ...]
    tokens,     \* ApprovalToken rows: sequence of [task, action, is_used, expires_at, ...]
    audit,      \* AuditLog rows, in insertion order
    jobs,       \* tasks.process_invoice messages waiting in the broker
    sess,       \* per worker/request: the running handler and its session state
    nOps,       \* handler invocations started so far
    opLimit,    \* handler invocations the behaviour explores
    rvs,        \* RuleVersion rows: sequence of [rule, number, status, config, ...]
    rsess,      \* per request: a running publish_rule and what it loaded
    nRuleOps,   \* rules handler invocations started so far
    now,        \* the wall clock, in hours since the upload
    delegs,     \* UserDelegation rows, in insertion order
    calc,       \* one stand-alone evaluation: its inputs and result
    beat        \* the periodic jobs: the inbox, beat's messages, the executions

vars == <<inv, invLines, mrs, lims, excs, tasks, tokens, audit, jobs, sess,
          nOps, opLimit, rvs, rsess, nRuleOps, now, delegs,
          calc, beat>>

invVars  == <<inv, invLines, mrs, lims, excs, tasks, tokens, audit, jobs, sess,
              nOps, opLimit>>
ruleVars == <<rvs, rsess, nRuleOps>>

----------------------------------------------------------------------------
(* Bounds of the model *)

MaxOps == 2         \* handler invocations per behaviour, all handlers
MaxApprovalOps == 3 \* handler invocations per behaviour, pipeline and approval
NProcs == 2         \* handlers that can be in flight at once
MaxLines == 1       \* invoice lines one extraction run produces
MaxRuleOps == 4     \* rules handler invocations per behaviour
MaxVersions == 3    \* RuleVersion rows per behaviour
MaxTime == 72       \* hours of wall clock a behaviour covers

Procs == 1..NProcs

----------------------------------------------------------------------------
(* The invoice state machine *)

Statuses == {"ingested", "extracting", "extracted", "matching", "matched",
             "exception", "approved", "paid", "rejected", "cancelled"}

\* _VALID_TRANSITIONS
ValidTransitions(s) ==
    CASE s = "ingested"   -> {"extracting", "cancelled"}
      [] s = "extracting" -> {"extracted", "cancelled"}
      [] s = "extracted"  -> {"matching", "cancelled"}
      [] s = "matching"   -> {"matched", "exception", "cancelled"}
      [] s = "matched"    -> {"approved", "rejected", "cancelled"}
      [] s = "exception"  -> {"matched", "approved", "rejected", "cancelled"}
      [] s = "approved"   -> {"paid", "cancelled"}
      [] s = "paid"       -> {}
      [] s = "rejected"   -> {"cancelled"}
      [] s = "cancelled"  -> {}
      [] OTHER            -> {}

IsEdge(a, b) == a = b \/ b \in ValidTransitions(a)

----------------------------------------------------------------------------
(* Configuration and inputs *)

\* DEFAULT_TOLERANCE, in whole currency units
AmountTolerancePctNum == 2          \* amount_tolerance_pct = 2 / 100
AmountToleranceAbs    == 50
AutoApproveThreshold  == 5000

FraudHighThreshold     == 40
FraudCriticalThreshold == 60

\* Totals an extraction or a field correction can produce
Amounts == {4800, 6200}
\* PO totals the purchase-order table can hold for the resolved PO
PoTotals == {4800, 6200}
\* Scores the fraud signals can sum to
FraudScores == {0, 60}

\* How an invoice line compares with its paired PO line in the 2-way check
LineClasses == {"ok", "qty", "price", "both", "nopo"}

Users == {"approver", "approver2", "admin", "clerk"}
Role(u) == CASE u = "approver"  -> "APPROVER"
             [] u = "approver2" -> "APPROVER"
             [] u = "admin"     -> "ADMIN"
             [] OTHER           -> "AP_CLERK"

----------------------------------------------------------------------------
(* Audit log *)

\* A faulty writer, for comparison: it reuses the newest row
AuditOverwriteLast(log, e) ==
    IF Len(log) = 0 THEN <<e>> ELSE [log EXCEPT ![Len(log)] = e]

\* audit.log: db.add(entry); the row is committed with the caller's transaction
AuditAppend(log, e) == Append(log, e)

\* One audit row.  st is the invoice status the row records as the new one
\* ("none" when the row records no status change), op the handler invocation.
AuditRow(action, before, st, op) ==
    [action |-> action, before |-> before, status |-> st, op |-> op]

\* The row of a field correction: before = {field: old}, after = {field: new}
FieldCorrectedRow(field, old, new, op) ==
    [action |-> "field_corrected", before |-> "none", status |-> "none",
     op |-> op, field |-> field, old |-> old, new |-> new]

----------------------------------------------------------------------------
(* ORM sessions *)

\* The unit of work emits UPDATE ... SET col only for an attribute whose value
\* differs from the one the session holds; the row then takes the new value
\* whatever another transaction committed meanwhile.
OrmWrite(cached, new, committed) == IF cached = new THEN committed ELSE new

NoRes == [ms |-> "none", lines |-> <<>>, codes |-> {}, mtype |-> "none"]

Idle == [kind |-> "idle", pc |-> "idle", op |-> 0,
         sStatus |-> "none", sTotal |-> 0, sFraud |-> 0,
         prev |-> "none", final |-> "none",
         existing |-> 0, res |-> NoRes,
         task |-> 0, action |-> "none", channel |-> "none",
         actor |-> "none", tStatus |-> "none", exc |-> 0]

\* No header check is being evaluated on its own
NoCalc == [inv_total |-> 0, po_total |-> 0, lines |-> <<>>, res |-> NoRes]

\* The .eml messages that can arrive in the inbox directory
Msgs == {"m1", "m2"}
\* beat_schedule: the periodic jobs
PeriodicJobs == {"poll_ap_mailbox", "check_sla_alerts",
                 "detect_recurring_patterns"}

NoExec == [job |-> "none", files |-> {}]

\* Nothing has arrived, beat has sent nothing, no periodic job is running
BeatIdle == [inbox |-> {}, invoices |-> [m \in Msgs |-> 0], enqueued |-> 0,
             queue |-> [j \in PeriodicJobs |-> 0],
             exec |-> [p \in Procs |-> NoExec], ticks |-> 0]

Free(p) == sess[p].kind = "idle"
\* Workers are interchangeable: a new handler takes the lowest free slot
CanStart(p) ==
    /\ Free(p)
    /\ \A q \in Procs : q < p => ~Free(q)
    /\ nOps < opLimit

\* A handler returns.  The pipeline job's message is acknowledged only after
\* the task function has returned (task_acks_late)
Finished(s) ==
    IF s.kind = "pipeline"
    THEN [Idle EXCEPT !.kind = "pipeline", !.pc = "p_ack"]
    ELSE Idle

----------------------------------------------------------------------------
(* Initial state: one uploaded invoice, its pipeline job enqueued *)

\* upload_invoice: Invoice(status="ingested"); process_invoice.delay(id)
InitInvoice ==
    /\ inv = [status |-> "ingested", total |-> 0, fraud_score |-> 0,
              is_duplicate |-> FALSE]
    /\ invLines = <<>>
    /\ mrs = {}
    /\ lims = {}
    /\ excs = <<>>
    /\ tasks = <<>>
    /\ tokens = <<>>
    /\ audit = <<>>
    /\ jobs = 1
    /\ sess = [p \in Procs |-> Idle]
    /\ nOps = 0
    /\ now = 0
    /\ delegs = <<>>
    /\ beat = BeatIdle

----------------------------------------------------------------------------
(* Exception records *)

HasOpen(es, code) ==
    \E i \in 1..Len(es) : es[i].code = code /\ es[i].status = "open"

\* _create_exception / _ensure_exception / _ensure_fraud_exception:
\* insert an open record unless an open one with the same code exists
EnsureException(es, code) ==
    IF HasOpen(es, code) THEN es
    ELSE Append(es, [code |-> code, status |-> "open"])

RECURSIVE EnsureAll(_, _)
\* _persist_match_result: one _create_exception call per code, in order
EnsureAll(es, codes) ==
    IF codes = <<>> THEN es
    ELSE EnsureAll(EnsureException(es, Head(codes)), Tail(codes))

\* Statuses a patch request sets
PatchStatuses == {"open", "resolved"}

----------------------------------------------------------------------------
(* API handlers: the status override, then those that commit at once *)

\* PATCH /invoices/{id}/status: load the invoice and validate the target
\* against the graph.  Each HTTP error is a guard: nothing was written.
OverrideInvoiceStatus(p, target) ==
    /\ CanStart(p)
    /\ target \in Statuses
    /\ target \in ValidTransitions(inv.status)
    /\ sess' = [sess EXCEPT ![p] =
                  [Idle EXCEPT !.kind = "override", !.pc = "o_commit",
                               !.op = nOps + 1, !.sStatus = inv.status,
                               !.final = target]]
    /\ nOps' = nOps + 1
    /\ UNCHANGED <<inv, invLines, mrs, lims, excs, tasks, tokens, audit, jobs,
                   opLimit, beat, now, ruleVars,
                   delegs, calc>>

\* PATCH /invoices/{id}/status: the status write, the audit row, the commit
OverrideCommit(p) ==
    /\ sess[p].pc = "o_commit"
    /\ inv' = [inv EXCEPT !.status =
                  OrmWrite(sess[p].sStatus, sess[p].final, inv.status)]
    /\ audit' = AuditAppend(audit,
                   AuditRow("manual_status_override", sess[p].sStatus,
                            sess[p].final, sess[p].op))
    /\ sess' = [sess EXCEPT ![p] = Idle]
    /\ UNCHANGED <<invLines, mrs, lims, excs, tasks, tokens, jobs, nOps,
                   opLimit, beat, now, ruleVars,
                   delegs, calc>>

\* POST /invoices/{id}/payment
RecordPayment ==
    /\ nOps < opLimit
    /\ inv.status = "approved"
    /\ inv' = [inv EXCEPT !.status = "paid"]
    /\ audit' = AuditAppend(audit,
                   AuditRow("payment_recorded", inv.status, "paid", nOps + 1))
    /\ nOps' = nOps + 1
    /\ UNCHANGED <<invLines, mrs, lims, excs, tasks, tokens, jobs, sess, opLimit, beat, now, ruleVars,
                   delegs, calc>>

\* PATCH /invoices/{id}/fields with field_name = total_amount
CorrectInvoiceField(v) ==
    /\ nOps < opLimit
    /\ inv' = [inv EXCEPT !.total = v]
    /\ audit' = AuditAppend(audit,
                   FieldCorrectedRow("total_amount", inv.total, v, nOps + 1))
    /\ jobs' = IF inv.status = "exception" THEN jobs + 1 ELSE jobs
    /\ nOps' = nOps + 1
    /\ UNCHANGED <<invLines, mrs, lims, excs, tasks, tokens, sess, opLimit, beat, now, ruleVars,
                   delegs, calc>>

\* POST /portal/invoices/{id}/dispute
SubmitVendorDispute ==
    /\ nOps < opLimit
    /\ excs' = Append(excs, [code |-> "VENDOR_DISPUTE", status |-> "open"])
    /\ nOps' = nOps + 1
    /\ UNCHANGED <<inv, invLines, mrs, lims, tasks, tokens, audit, jobs, sess, opLimit, beat, now, ruleVars,
                   delegs, calc>>

\* PATCH /exceptions/{id}: the status change is committed first
PatchException(p, i, st) ==
    /\ CanStart(p)
    /\ i \in 1..Len(excs)
    /\ excs' = [excs EXCEPT ![i].status = st]
    /\ sess' = [sess EXCEPT ![p] =
                  [Idle EXCEPT !.kind = "patch_exception", !.pc = "x_audit",
                               !.op = nOps + 1, !.exc = i]]
    /\ nOps' = nOps + 1
    /\ UNCHANGED <<inv, invLines, mrs, lims, tasks, tokens, audit, jobs, opLimit, beat, now, ruleVars,
                   delegs, calc>>

\* PATCH /exceptions/{id}: the audit row is added and committed afterwards
PatchExceptionAudit(p) ==
    /\ sess[p].pc = "x_audit"
    /\ audit' = AuditAppend(audit,
                   AuditRow("exception.updated", "none", "none", sess[p].op))
    /\ sess' = [sess EXCEPT ![p] = Idle]
    /\ UNCHANGED <<inv, invLines, mrs, lims, excs, tasks, tokens, jobs, nOps, opLimit, beat, now, ruleVars,
                   delegs, calc>>

----------------------------------------------------------------------------
(* Matching engine: the comparison *)

Abs(x) == IF x < 0 THEN -x ELSE x

\* The PO the resolution finds for the invoice, if any
POs == {[found |-> FALSE, total |-> 0]} \cup
       {[found |-> TRUE, total |-> t] : t \in PoTotals}

\* What the goods receipts of the PO cover: none exist, less than invoiced, all
GrnStates == {"none", "short", "full"}

\* A faulty variant, for comparison: the percentage test alone
HeaderOkPctOnly(inv_total, po_total) ==
    IF po_total > 0
    THEN Abs(inv_total - po_total) * 100 <= AmountTolerancePctNum * po_total
    ELSE inv_total = 0

\* run_2way_match, header amount check
HeaderOk(inv_total, po_total) ==
    LET amt_diff == Abs(inv_total - po_total)
        pct_ok   == IF po_total > 0
                    THEN amt_diff * 100 <= AmountTolerancePctNum * po_total
                    ELSE inv_total = 0
    IN  pct_ok \/ amt_diff <= AmountToleranceAbs

\* run_2way_match, line-level check: status and exception_code of one line
LineDetail2Way(c) ==
    CASE c = "ok"    -> [status |-> "matched",        exc |-> "none"]
      [] c = "both"  -> [status |-> "qty_variance",   exc |-> "QTY_VARIANCE"]
      [] c = "qty"   -> [status |-> "qty_variance",   exc |-> "QTY_VARIANCE"]
      [] c = "price" -> [status |-> "price_variance", exc |-> "PRICE_VARIANCE"]
      [] OTHER       -> [status |-> "unmatched",      exc |-> "MISSING_PO"]

LineCodes2Way(c) ==
    CASE c = "ok"    -> {}
      [] c = "both"  -> {"QTY_VARIANCE", "PRICE_VARIANCE"}
      [] c = "qty"   -> {"QTY_VARIANCE"}
      [] c = "price" -> {"PRICE_VARIANCE"}
      [] OTHER       -> {"MISSING_PO"}

\* run_3way_match, line-level check against the received quantity
LineDetail3Way(c, grn) ==
    IF c = "nopo" THEN [status |-> "unmatched", exc |-> "MISSING_PO"]
    ELSE IF grn = "full" THEN [status |-> "matched", exc |-> "none"]
    ELSE [status |-> "qty_variance", exc |-> "QTY_OVER_RECEIPT"]

CountStatus(details, st) ==
    Cardinality({i \in 1..Len(details) : details[i].status = st})

\* run_2way_match
Match2Way(po, inv_total, lines) ==
    IF ~po.found
    THEN [ms |-> "exception", lines |-> <<>>, codes |-> {"MISSING_PO"},
          mtype |-> "2way"]
    ELSE
      LET details   == [i \in 1..Len(lines) |-> LineDetail2Way(lines[i])]
          linecodes == UNION {LineCodes2Way(lines[i]) : i \in 1..Len(lines)}
          matched   == CountStatus(details, "matched")
          unmatched == CountStatus(details, "unmatched")
          outoftol  == Len(lines) - matched - unmatched
          header_ok == HeaderOk(inv_total, po.total)
          overall   == IF ~header_ok THEN "exception"
                       ELSE IF Len(lines) = 0 THEN "matched"
                       ELSE IF outoftol = 0 /\ unmatched = 0 THEN "matched"
                       ELSE IF matched = 0 THEN "exception"
                       ELSE "partial"
      IN  [ms |-> overall, lines |-> details,
           codes |-> IF header_ok THEN linecodes
                     ELSE linecodes \cup {"PRICE_VARIANCE"},
           mtype |-> "2way"]

\* run_3way_match
Match3Way(po, grn, lines) ==
    IF ~po.found
    THEN [ms |-> "exception", lines |-> <<>>, codes |-> {"MISSING_PO"},
          mtype |-> "3way"]
    ELSE IF grn = "none"
    THEN [ms |-> "exception", lines |-> <<>>, codes |-> {"GRN_NOT_FOUND"},
          mtype |-> "3way"]
    ELSE
      LET details   == [i \in 1..Len(lines) |-> LineDetail3Way(lines[i], grn)]
          matched   == CountStatus(details, "matched")
          unmatched == CountStatus(details, "unmatched")
          outoftol  == Len(lines) - matched - unmatched
          overall   == IF Len(lines) = 0 \/ (outoftol = 0 /\ unmatched = 0)
                       THEN "matched"
                       ELSE IF matched = 0 THEN "exception"
                       ELSE "partial"
      IN  [ms |-> overall, lines |-> details,
           codes |-> {details[i].exc : i \in 1..Len(details)} \ {"none"},
           mtype |-> "3way"]

\* _persist_match_result: the auto-approval gate
NewStatus(ms, inv_total) ==
    IF ms = "matched" /\ inv_total <= AutoApproveThreshold THEN "approved"
    ELSE IF ms \in {"matched", "partial"} THEN "matched"
    ELSE "exception"

RECURSIVE LineExcCodes(_)
LineExcCodes(details) ==
    IF details = <<>> THEN <<>>
    ELSE IF Head(details).exc = "none" THEN LineExcCodes(Tail(details))
    ELSE <<Head(details).exc>> \o LineExcCodes(Tail(details))

\* _persist_match_result: the codes _create_exception is called with, in order
PersistExceptionCodes(res) ==
    LineExcCodes(res.lines)
    \o (IF res.ms = "exception" /\ "MISSING_PO" \in res.codes
        THEN <<"MISSING_PO">> ELSE <<>>)
    \o (IF res.ms = "exception" /\ "GRN_NOT_FOUND" \in res.codes
        THEN <<"GRN_NOT_FOUND">> ELSE <<>>)

----------------------------------------------------------------------------
(* Approval tasks created by the match run *)

\* auto_create_approval_task: two approvals for a critical fraud score
RequiredCount(fraud) == IF fraud >= FraudCriticalThreshold THEN 2 ELSE 1

\* settings.APPROVAL_TOKEN_EXPIRE_HOURS
ApprovalTokenExpireHours == 48

\* create_approval_task: the task row and its approve / reject tokens.
\* raced, approvers, late and uses are history fields, not columns: raced
\* records that a decision was committed over a task status it had not
\* loaded, approvers lists the actors of the committed approve decisions
\* (none for the email channel), late records that a decision was committed
\* over a task status that accepts no decision, uses counts the committed
\* decisions a token has authorized.
NewTask(fraud) ==
    [status |-> "pending", required |-> RequiredCount(fraud),
     approver |-> "approver", delegated_to |-> "none",
     raced |-> FALSE, approvers |-> <<>>, late |-> FALSE]

NewTokens(t, at) ==
    << [task |-> t, action |-> "approve", is_used |-> FALSE,
        expires_at |-> at + ApprovalTokenExpireHours, uses |-> 0],
       [task |-> t, action |-> "reject",  is_used |-> FALSE,
        expires_at |-> at + ApprovalTokenExpireHours, uses |-> 0] >>

----------------------------------------------------------------------------
(* A match run: load, compare, persist.  Shared by the pipeline job and
   the re-match endpoint. *)

\* run_2way_match / run_3way_match up to the call of _persist_match_result,
\* and the SELECT of the existing MatchResult that opens it
MatchLoad(p, po, grn, rtype, engine_error) ==
    /\ sess[p].pc = "m_load"
    /\ sess[p].kind = "pipeline" => rtype = "2way"
    /\ rtype = "2way" => grn = "none"
    /\ LET s      == sess[p]
           fresh  == s.kind = "rematch"
           status == IF fresh THEN inv.status ELSE s.sStatus
           total  == IF fresh THEN inv.total ELSE s.sTotal
           fraud  == IF fresh THEN inv.fraud_score ELSE s.sFraud
           result == IF rtype = "3way" THEN Match3Way(po, grn, invLines)
                     ELSE Match2Way(po, total, invLines)
           old    == IF mrs = {} THEN 0 ELSE (CHOOSE m \in mrs : TRUE).id
       IN  IF engine_error
           THEN IF fresh
                THEN \* HTTP 500; the session is closed
                     /\ sess' = [sess EXCEPT ![p] = Idle]
                     /\ UNCHANGED inv
                ELSE \* process_invoice: back to extracted, commit
                     /\ inv' = [inv EXCEPT !.status =
                                   OrmWrite(s.sStatus, "extracted", inv.status)]
                     /\ sess' = [sess EXCEPT ![p] = Finished(s)]
           ELSE /\ sess' = [sess EXCEPT ![p] =
                       [s EXCEPT !.pc = "m_write", !.sStatus = status,
                                 !.sTotal = total, !.sFraud = fraud,
                                 !.prev = status, !.existing = old,
                                 !.res = result]]
                /\ UNCHANGED inv
    /\ UNCHANGED <<invLines, mrs, lims, excs, tasks, tokens, audit, jobs,
                   nOps, opLimit, beat, now, ruleVars,
                   delegs, calc>>

\* The unique constraint on match_results.invoice_id: the INSERT fails when
\* a row other than the one this run deletes is committed for the invoice
UniqueViolation(rows, existing) == \E m \in rows : m.id # existing

MatchResultsAfterDelete(rows, existing) == {m \in rows : m.id # existing}

\* A faulty overwrite, for comparison: the old line matches are left behind
LimsKeepOld(rows, existing) == rows

\* DELETE of the old LineItemMatch rows (explicit, and by ON DELETE CASCADE)
LimsAfterDelete(rows, existing) == {l \in rows : l.mr # existing}

\* _persist_match_result: all writes up to the first commit.
\* approver_found: auto_create_approval_task finds an active APPROVER user
MatchWrite(p, approver_found) ==
    /\ sess[p].pc = "m_write"
    /\ LET s    == sess[p]
           res  == s.res
           new  == NewStatus(res.ms, s.sTotal)
           row  == [id |-> s.op, match_status |-> res.ms,
                    match_type |-> res.mtype]
           rows == {[mr |-> s.op, line |-> i, status |-> res.lines[i].status]
                      : i \in 1..Len(res.lines)}
           done == AuditAppend(audit,
                      AuditRow("invoice.match_completed", s.prev, new, s.op))
       IN  IF UniqueViolation(mrs, s.existing)
           THEN \* IntegrityError on flush: nothing is committed.  The
                \* pipeline job's recovery commit raises too; it retries.
                /\ sess' = [sess EXCEPT ![p] =
                       IF s.kind = "pipeline"
                       THEN [Idle EXCEPT !.kind = "pipeline", !.pc = "p_retry"]
                       ELSE Idle]
                /\ UNCHANGED <<inv, mrs, lims, excs, tasks, tokens, audit,
                               jobs>>
           ELSE /\ mrs' = MatchResultsAfterDelete(mrs, s.existing) \cup {row}
                /\ lims' = LimsAfterDelete(lims, s.existing) \cup rows
                /\ excs' = EnsureAll(excs, PersistExceptionCodes(res))
                /\ inv' = [inv EXCEPT !.status =
                                   OrmWrite(s.sStatus, new, inv.status)]
                /\ UNCHANGED jobs
                /\ IF new = "matched" /\ approver_found
                   THEN \* create_approval_task commits here
                        /\ tasks' = Append(tasks, NewTask(s.sFraud))
                        /\ tokens' = tokens \o NewTokens(Len(tasks) + 1, now)
                        /\ audit' = AuditAppend(audit,
                               AuditRow("approval_task_created", "none",
                                        "none", s.op))
                        /\ sess' = [sess EXCEPT ![p] =
                               [s EXCEPT !.pc = "m_audit", !.sStatus = new]]
                   ELSE /\ audit' = done
                        /\ sess' = [sess EXCEPT ![p] = Finished(s)]
                        /\ UNCHANGED <<tasks, tokens>>
    /\ UNCHANGED <<invLines, nOps, opLimit, beat, now, ruleVars,
                   delegs, calc>>

\* _persist_match_result after create_approval_task: audit row, commit
MatchAudit(p) ==
    /\ sess[p].pc = "m_audit"
    /\ audit' = AuditAppend(audit,
                   AuditRow("invoice.match_completed", sess[p].prev,
                            sess[p].sStatus, sess[p].op))
    /\ sess' = [sess EXCEPT ![p] = Finished(sess[p])]
    /\ UNCHANGED <<inv, invLines, mrs, lims, excs, tasks, tokens, jobs,
                   nOps, opLimit, beat, now, ruleVars,
                   delegs, calc>>

\* trigger_match: UPDATE invoices SET status = 'matching'; commit
TriggerMatch(p) ==
    /\ CanStart(p)
    /\ inv' = [inv EXCEPT !.status = "matching"]
    /\ sess' = [sess EXCEPT ![p] =
                  [Idle EXCEPT !.kind = "rematch", !.pc = "m_load",
                               !.op = nOps + 1]]
    /\ nOps' = nOps + 1
    /\ UNCHANGED <<invLines, mrs, lims, excs, tasks, tokens, audit, jobs,
                   opLimit, beat, now, ruleVars,
                   delegs, calc>>

----------------------------------------------------------------------------
(* The process_invoice job: one session, one action per commit *)

\* Line items an extraction can yield
RECURSIVE SeqsUpTo(_, _)
SeqsUpTo(S, n) ==
    IF n = 0 THEN {<<>>}
    ELSE LET shorter == SeqsUpTo(S, n - 1)
         IN  shorter \cup {Append(q, x) : q \in shorter, x \in S}

ExtractedLines == SeqsUpTo({"ok", "qty"}, MaxLines)

\* total_amount after the merge of the two passes (0: none extracted)
ExtractedTotals == Amounts \cup {0}

\* process_invoice: fetch, status := extracting, commit
PipelineStart(p) ==
    /\ jobs > 0
    /\ CanStart(p)
    /\ jobs' = jobs - 1
    /\ inv' = [inv EXCEPT !.status =
                  OrmWrite(inv.status, "extracting", inv.status)]
    /\ sess' = [sess EXCEPT ![p] =
                  [Idle EXCEPT !.kind = "pipeline", !.pc = "p_audit1",
                               !.op = nOps + 1, !.prev = inv.status,
                               !.sStatus = "extracting",
                               !.sTotal = inv.total,
                               !.sFraud = inv.fraud_score]]
    /\ nOps' = nOps + 1
    /\ UNCHANGED <<invLines, mrs, lims, excs, tasks, tokens, audit, opLimit, beat, now, ruleVars,
                   delegs, calc>>

\* process_invoice: audit row of the first status change, commit
PipelineAudit1(p) ==
    /\ sess[p].pc = "p_audit1"
    /\ audit' = AuditAppend(audit,
                   AuditRow("invoice.status_changed", sess[p].prev,
                            "extracting", sess[p].op))
    /\ sess' = [sess EXCEPT ![p].pc = "p_extract"]
    /\ UNCHANGED <<inv, invLines, mrs, lims, excs, tasks, tokens, jobs,
                   nOps, opLimit, beat, now, ruleVars,
                   delegs, calc>>

\* process_invoice: the download from storage fails; raise self.retry
\* publishes the message again, and the Retry it raises is caught by the
\* outer handler, whose self.retry publishes it once more
PipelineDownloadFails(p) ==
    /\ sess[p].pc = "p_extract"
    /\ jobs' = jobs + 2
    /\ sess' = [sess EXCEPT ![p] = Idle]
    /\ UNCHANGED <<inv, invLines, mrs, lims, excs, tasks, tokens, audit,
                   nOps, opLimit, beat, now, ruleVars,
                   delegs, calc>>

\* process_invoice: extraction, invoice fields, line items, status, commit
PipelineExtract(p, failed, total, lines) ==
    /\ sess[p].pc = "p_extract"
    /\ failed => (total = 0 /\ lines = <<>>)
    /\ Len(invLines) + Len(lines) <= opLimit * MaxLines
    /\ LET final == IF failed THEN "exception" ELSE "extracted"
       IN  /\ inv' = [inv EXCEPT
                        !.status = OrmWrite(sess[p].sStatus, final, inv.status),
                        !.total  = OrmWrite(sess[p].sTotal, total, inv.total)]
           /\ invLines' = invLines \o lines
           /\ sess' = [sess EXCEPT ![p].pc = "p_audit2",
                                   ![p].final = final,
                                   ![p].sStatus = final,
                                   ![p].sTotal = total]
    /\ UNCHANGED <<mrs, lims, excs, tasks, tokens, audit, jobs, nOps,
                   opLimit, beat, now, ruleVars,
                   delegs, calc>>

\* process_invoice: audit row of the extraction outcome, commit
PipelineAudit2(p) ==
    /\ sess[p].pc = "p_audit2"
    /\ audit' = AuditAppend(audit,
                   AuditRow("invoice.status_changed", "extracting",
                            sess[p].final, sess[p].op))
    /\ sess' = [sess EXCEPT ![p].pc = "p_dup"]
    /\ UNCHANGED <<inv, invLines, mrs, lims, excs, tasks, tokens, jobs,
                   nOps, opLimit, beat, now, ruleVars,
                   delegs, calc>>

\* check_duplicate: an exception record when a match is found, commit
PipelineDuplicate(p, hit) ==
    /\ sess[p].pc = "p_dup"
    /\ excs' = IF hit THEN EnsureException(excs, "DUPLICATE_INVOICE") ELSE excs
    /\ sess' = [sess EXCEPT ![p].pc = "p_fraud"]
    /\ UNCHANGED <<inv, invLines, mrs, lims, tasks, tokens, audit, jobs,
                   nOps, opLimit, beat, now, ruleVars,
                   delegs, calc>>

\* score_invoice: fraud_score, FRAUD_FLAG from the high threshold, audit, commit
PipelineFraud(p, score) ==
    /\ sess[p].pc = "p_fraud"
    /\ inv' = [inv EXCEPT !.fraud_score =
                  OrmWrite(sess[p].sFraud, score, inv.fraud_score)]
    /\ excs' = IF score >= FraudHighThreshold
               THEN EnsureException(excs, "FRAUD_FLAG") ELSE excs
    /\ audit' = AuditAppend(audit,
                   AuditRow("invoice.fraud_scored", "none", "none", sess[p].op))
    /\ sess' = [sess EXCEPT ![p] =
                  IF sess[p].final = "extracted"
                  THEN [sess[p] EXCEPT !.pc = "p_matching", !.sFraud = score]
                  ELSE Finished(sess[p])]
    /\ UNCHANGED <<invLines, mrs, lims, tasks, tokens, jobs, nOps, opLimit, beat, now, ruleVars,
                   delegs, calc>>

\* process_invoice: status := matching, commit
PipelineMatching(p) ==
    /\ sess[p].pc = "p_matching"
    /\ inv' = [inv EXCEPT !.status =
                  OrmWrite(sess[p].sStatus, "matching", inv.status)]
    /\ sess' = [sess EXCEPT ![p].pc = "p_audit3", ![p].sStatus = "matching"]
    /\ UNCHANGED <<invLines, mrs, lims, excs, tasks, tokens, audit, jobs,
                   nOps, opLimit, beat, now, ruleVars,
                   delegs, calc>>

\* process_invoice: audit row of extracted -> matching, commit
PipelineAudit3(p) ==
    /\ sess[p].pc = "p_audit3"
    /\ audit' = AuditAppend(audit,
                   AuditRow("invoice.status_changed", "extracted",
                            "matching", sess[p].op))
    /\ sess' = [sess EXCEPT ![p].pc = "m_load"]
    /\ UNCHANGED <<inv, invLines, mrs, lims, excs, tasks, tokens, jobs,
                   nOps, opLimit, beat, now, ruleVars,
                   delegs, calc>>

\* process_invoice has returned: the worker acknowledges the message
PipelineAck(p) ==
    /\ sess[p].pc = "p_ack"
    /\ sess' = [sess EXCEPT ![p] = Idle]
    /\ UNCHANGED <<inv, invLines, mrs, lims, excs, tasks, tokens, audit, jobs,
                   nOps, opLimit, beat, now, ruleVars,
                   delegs, calc>>

\* process_invoice, outer handler: rollback, raise self.retry(countdown=60);
\* the message is published again
PipelineRetry(p) ==
    /\ sess[p].pc = "p_retry"
    /\ jobs' = jobs + 1
    /\ sess' = [sess EXCEPT ![p] = Idle]
    /\ UNCHANGED <<inv, invLines, mrs, lims, excs, tasks, tokens, audit,
                   nOps, opLimit, beat, now, ruleVars,
                   delegs, calc>>

\* task_acks_late: a worker lost before the acknowledgement leaves the
\* message with the broker, which delivers it again
WorkerLost(p) ==
    /\ sess[p].kind = "pipeline"
    /\ jobs' = jobs + 1
    /\ sess' = [sess EXCEPT ![p] = Idle]
    /\ UNCHANGED <<inv, invLines, mrs, lims, excs, tasks, tokens, audit,
                   nOps, opLimit, beat, now, ruleVars,
                   delegs, calc>>

----------------------------------------------------------------------------
(* Wall clock: datetime.now(timezone.utc), read by the handlers *)

\* Hours by which the clock is observed to advance
ClockSteps == {24}

Tick(d) ==
    /\ now + d <= MaxTime
    /\ now' = now + d
    /\ UNCHANGED <<invVars, beat, ruleVars, delegs, calc>>

----------------------------------------------------------------------------
(* process_approval_decision: the reads, then the writes and the commit *)

TokenOf(t, action) ==
    CHOOSE k \in 1..Len(tokens) :
        tokens[k].task = t /\ tokens[k].action = action

\* process_approval_decision: load the task, validate the token or the
\* actor, load the invoice.  Each raise is a guard: nothing was written.
DecisionLoad(p, t, action, channel, actor) ==
    /\ CanStart(p)
    /\ t \in 1..Len(tasks)
    /\ tasks[t].status \in {"pending", "partially_approved"}
    /\ IF channel = "email"
       THEN /\ actor = "none"
            /\ ~tokens[TokenOf(t, action)].is_used
            /\ ~(tokens[TokenOf(t, action)].expires_at < now)
       ELSE /\ actor \in Users
            /\ \/ actor = tasks[t].approver
               \/ Role(actor) \in {"APPROVER", "ADMIN"}
    /\ sess' = [sess EXCEPT ![p] =
                  [Idle EXCEPT !.kind = "decision", !.pc = "a_commit",
                               !.op = nOps + 1, !.task = t,
                               !.action = action, !.channel = channel,
                               !.actor = actor,
                               !.tStatus = tasks[t].status,
                               !.sStatus = inv.status]]
    /\ nOps' = nOps + 1
    /\ UNCHANGED <<inv, invLines, mrs, lims, excs, tasks, tokens, audit,
                   jobs, opLimit, beat, now, ruleVars,
                   delegs, calc>>

\* A faulty variant for comparison: an approve completes the task whatever
\* its approval_required_count
DecidedStatusNoCount(action, loaded, required) ==
    IF action = "reject" THEN "rejected" ELSE "approved"

\* The task status an approve or reject leads to, from the status loaded
DecidedStatus(action, loaded, required) ==
    IF action = "reject" THEN "rejected"
    ELSE LET approved_count == (IF loaded = "partially_approved" THEN 1 ELSE 0) + 1
         IN  IF approved_count < required THEN "partially_approved"
             ELSE "approved"

\* process_approval_decision: token, task and invoice updates, audit, commit
DecisionCommit(p) ==
    /\ sess[p].pc = "a_commit"
    /\ LET s   == sess[p]
           t   == s.task
           new == DecidedStatus(s.action, s.tStatus, tasks[t].required)
           invNew == IF new = "partially_approved" THEN s.sStatus
                     ELSE new
       IN  /\ tokens' = IF s.channel = "email"
                        THEN [tokens EXCEPT
                                ![TokenOf(t, s.action)].is_used = TRUE,
                                ![TokenOf(t, s.action)].uses = @ + 1]
                        ELSE tokens
           /\ tasks' = [tasks EXCEPT
                          ![t].status = new,
                          ![t].raced = @ \/ tasks[t].status # s.tStatus,
                          ![t].late = @ \/ tasks[t].status \notin
                                            {"pending", "partially_approved"},
                          ![t].approvers = IF s.action = "approve"
                                           THEN Append(@, s.actor) ELSE @]
           /\ inv' = [inv EXCEPT !.status =
                         OrmWrite(s.sStatus, invNew, inv.status)]
           /\ audit' = AuditAppend(audit,
                  AuditRow(CASE new = "rejected" -> "invoice_rejected"
                             [] new = "approved" -> "invoice_approved"
                             [] OTHER -> "invoice_partially_approved",
                           s.sStatus, invNew, s.op))
           /\ sess' = [sess EXCEPT ![p] = Idle]
    /\ UNCHANGED <<invLines, mrs, lims, excs, jobs, nOps, opLimit, beat, now, ruleVars,
                   delegs, calc>>

----------------------------------------------------------------------------
(* Rule versions: upload, AI extraction job, review, publish *)

VersionsOf(r) == {v \in 1..Len(rvs) : rvs[v].rule = r}

RuleIds == {rvs[v].rule : v \in 1..Len(rvs)}

Published(r) == {v \in VersionsOf(r) : rvs[v].status = "published"}

RIdle == [pc |-> "idle", version |-> 0, prev |-> {}]

RuleOpAllowed == nRuleOps < MaxRuleOps

\* upload_policy: a new Rule with its version 1 in draft; the job is queued
UploadPolicy ==
    /\ RuleOpAllowed
    /\ Len(rvs) < MaxVersions
    /\ rvs' = Append(rvs, [rule |-> Cardinality(RuleIds) + 1, number |-> 1,
                           status |-> "draft", edits |-> 0,
                           config |-> "uploaded",
                           job |-> "queued", jstatus |-> "none",
                           published_at |-> 0])
    /\ nRuleOps' = nRuleOps + 1
    /\ UNCHANGED <<invVars, beat, delegs, calc, now, rsess>>

\* "to change config, a new draft is created": the next version of a rule
CreateDraftVersion(r) ==
    /\ RuleOpAllowed
    /\ Len(rvs) < MaxVersions
    /\ r \in RuleIds
    /\ rvs' = Append(rvs, [rule |-> r,
                           number |-> Cardinality(VersionsOf(r)) + 1,
                           status |-> "draft", edits |-> 0,
                           config |-> "uploaded",
                           job |-> "none", jstatus |-> "none",
                           published_at |-> 0])
    /\ nRuleOps' = nRuleOps + 1
    /\ UNCHANGED <<invVars, beat, delegs, calc, now, rsess>>

\* extract_rules_from_policy: fetch the version
ExtractRulesLoad(v) ==
    /\ v \in 1..Len(rvs)
    /\ rvs[v].job = "queued"
    /\ rvs' = [rvs EXCEPT ![v].job = "loaded", ![v].jstatus = rvs[v].status]
    /\ UNCHANGED <<invVars, beat, delegs, calc, now, rsess, nRuleOps>>

\* extract_rules_from_policy: config, status := in_review, audit, commit
ExtractRulesCommit(v) ==
    /\ v \in 1..Len(rvs)
    /\ rvs[v].job = "loaded"
    /\ rvs' = [rvs EXCEPT
                 ![v].status = OrmWrite(rvs[v].jstatus, "in_review", @),
                 ![v].config = "ai_extracted",
                 ![v].job = "none", ![v].jstatus = "none"]
    /\ audit' = AuditAppend(audit,
                   AuditRow("policy_parsed_by_ai", "none", "none", 0))
    /\ UNCHANGED <<inv, invLines, mrs, lims, excs, tasks, tokens, jobs, sess,
                   nOps, opLimit, beat, rsess, nRuleOps, now, delegs,
                   calc>>

\* What update_rule accepts as config_json: any text json.loads can read,
\* an object ("reviewed") or another JSON value such as a list
ReviewedConfigs == {"reviewed", "reviewed_list"}

\* update_rule: only a draft or in_review version can be edited
UpdateRule(v, cfg) ==
    /\ RuleOpAllowed
    /\ v \in 1..Len(rvs)
    /\ rvs[v].status \in {"draft", "in_review"}
    /\ rvs[v].edits < 1
    /\ rvs' = [rvs EXCEPT ![v].edits = @ + 1, ![v].config = cfg]
    /\ nRuleOps' = nRuleOps + 1
    /\ UNCHANGED <<invVars, beat, delegs, calc, now, rsess>>

\* reject_rule
RejectRule(v) ==
    /\ RuleOpAllowed
    /\ v \in 1..Len(rvs)
    /\ rvs[v].status \in {"draft", "in_review"}
    /\ rvs' = [rvs EXCEPT ![v].status = "rejected"]
    /\ nRuleOps' = nRuleOps + 1
    /\ UNCHANGED <<invVars, beat, delegs, calc, now, rsess>>

\* publish_rule: load the version, check its status, select the published
\* versions of the same rule
PublishLoad(p, v) ==
    /\ RuleOpAllowed
    /\ rsess[p].pc = "idle"
    /\ v \in 1..Len(rvs)
    /\ rvs[v].status \in {"draft", "in_review"}
    /\ rsess' = [rsess EXCEPT ![p] =
                   [pc |-> "pub_commit", version |-> v,
                    prev |-> Published(rvs[v].rule) \ {v}]]
    /\ nRuleOps' = nRuleOps + 1
    /\ UNCHANGED <<invVars, beat, delegs, calc, now, rvs>>

\* datetime.now() of a publish: later than every published_at stored so far
RECURSIVE MaxPublishedAt(_)
MaxPublishedAt(rows) ==
    IF rows = <<>> THEN 0
    ELSE LET m == MaxPublishedAt(Tail(rows))
         IN  IF Head(rows).published_at > m THEN Head(rows).published_at ELSE m

\* The previously published versions a publish marks superseded
SupersedeLoaded(prev) == prev

\* publish_rule: supersede what was selected, status := published, commit
PublishCommit(p) ==
    /\ rsess[p].pc = "pub_commit"
    /\ LET v == rsess[p].version
       IN  rvs' = [w \in 1..Len(rvs) |->
                     IF w = v
                     THEN [rvs[w] EXCEPT
                             !.status = "published",
                             !.published_at = MaxPublishedAt(rvs) + 1]
                     ELSE IF w \in SupersedeLoaded(rsess[p].prev)
                     THEN [rvs[w] EXCEPT !.status = "superseded"]
                     ELSE rvs[w]]
    /\ rsess' = [rsess EXCEPT ![p] = RIdle]
    /\ UNCHANGED <<invVars, beat, delegs, calc, now, nRuleOps>>

----------------------------------------------------------------------------
(* Specifications *)

InitRules ==
    /\ rvs = <<>>
    /\ rsess = [p \in Procs |-> RIdle]
    /\ nRuleOps = 0

\* An uploaded invoice (status ingested, its job queued) and no rules yet
Init == InitInvoice /\ opLimit = MaxOps /\ InitRules /\ calc = NoCalc

\* The same start, explored further along the pipeline and approval path
InitApproval ==
    InitInvoice /\ opLimit = MaxApprovalOps /\ InitRules /\ calc = NoCalc

Next ==
    \/ \E p \in Procs, target \in Statuses : OverrideInvoiceStatus(p, target)
    \/ \E p \in Procs : OverrideCommit(p)
    \/ RecordPayment
    \/ \E v \in Amounts : CorrectInvoiceField(v)
    \/ SubmitVendorDispute
    \/ \E p \in Procs, i \in 1..Len(excs), st \in PatchStatuses :
           PatchException(p, i, st)
    \/ \E p \in Procs : PatchExceptionAudit(p)
    \/ \E p \in Procs : PipelineStart(p)
    \/ \E p \in Procs : PipelineAudit1(p)
    \/ \E p \in Procs : PipelineDownloadFails(p)
    \/ \E p \in Procs, failed \in BOOLEAN, total \in ExtractedTotals,
          lines \in ExtractedLines : PipelineExtract(p, failed, total, lines)
    \/ \E p \in Procs : PipelineAudit2(p)
    \/ \E p \in Procs, hit \in BOOLEAN : PipelineDuplicate(p, hit)
    \/ \E p \in Procs, score \in FraudScores : PipelineFraud(p, score)
    \/ \E p \in Procs : PipelineMatching(p)
    \/ \E p \in Procs : PipelineAudit3(p)
    \/ \E p \in Procs : PipelineAck(p)
    \/ \E p \in Procs : PipelineRetry(p)
    \/ \E p \in Procs : WorkerLost(p)
    \/ \E p \in Procs : TriggerMatch(p)
    \/ \E p \in Procs, po \in POs, grn \in GrnStates,
          rtype \in {"2way", "3way"}, engine_error \in BOOLEAN :
           MatchLoad(p, po, grn, rtype, engine_error)
    \/ \E p \in Procs, approver_found \in BOOLEAN :
           MatchWrite(p, approver_found)
    \/ \E p \in Procs : MatchAudit(p)
    \/ \E p \in Procs, t \in 1..Len(tasks), action \in {"approve", "reject"},
          channel \in {"web", "email"}, actor \in Users \cup {"none"} :
           DecisionLoad(p, t, action, channel, actor)
    \/ \E p \in Procs : DecisionCommit(p)

Spec == Init /\ [][Next]_vars

NextApproval ==
    \/ \E p \in Procs : PipelineStart(p)
    \/ \E p \in Procs : PipelineAudit1(p)
    \/ \E p \in Procs, failed \in BOOLEAN, total \in ExtractedTotals,
          lines \in ExtractedLines : PipelineExtract(p, failed, total, lines)
    \/ \E p \in Procs : PipelineAudit2(p)
    \/ \E p \in Procs, hit \in BOOLEAN : PipelineDuplicate(p, hit)
    \/ \E p \in Procs, score \in FraudScores : PipelineFraud(p, score)
    \/ \E p \in Procs : PipelineMatching(p)
    \/ \E p \in Procs : PipelineAudit3(p)
    \/ \E p \in Procs : PipelineAck(p)
    \/ \E p \in Procs, po \in POs :
           MatchLoad(p, po, "none", "2way", FALSE)
    \/ \E p \in Procs, approver_found \in BOOLEAN :
           MatchWrite(p, approver_found)
    \/ \E p \in Procs : MatchAudit(p)
    \/ \E p \in Procs, t \in 1..Len(tasks), action \in {"approve", "reject"},
          channel \in {"web", "email"}, actor \in Users \cup {"none"} :
           DecisionLoad(p, t, action, channel, actor)
    \/ \E p \in Procs : DecisionCommit(p)
    \/ RecordPayment

SpecApproval == InitApproval /\ [][NextApproval]_vars

NextRules ==
    \/ UploadPolicy
    \/ \E r \in RuleIds : CreateDraftVersion(r)
    \/ \E v \in 1..Len(rvs) : ExtractRulesLoad(v)
    \/ \E v \in 1..Len(rvs) : ExtractRulesCommit(v)
    \/ \E v \in 1..Len(rvs), cfg \in ReviewedConfigs : UpdateRule(v, cfg)
    \/ \E v \in 1..Len(rvs) : RejectRule(v)
    \/ \E p \in Procs, v \in 1..Len(rvs) : PublishLoad(p, v)
    \/ \E p \in Procs : PublishCommit(p)

SpecRules == Init /\ [][NextRules]_vars

\* The pipeline and approval path with time passing between the steps
NextClock ==
    \/ NextApproval
    \/ \E d \in ClockSteps : Tick(d)

SpecClock == InitApproval /\ [][NextClock]_vars

----------------------------------------------------------------------------
(* Properties *)

PipelineStarts ==
    \E p \in Procs : sess[p].kind = "idle" /\ sess'[p].kind = "pipeline"

MatchCompletedRows ==
    {i \in 1..Len(audit) : audit[i].action = "invoice.match_completed"}

\* C1: the invoice status is always one of the ten states, and every
\* committed change of it is an edge of the transition graph, whichever
\* handler writes it.
C1_StatusFollowsGraph ==
    [][inv'.status \in Statuses /\ IsEdge(inv.status, inv'.status)]_vars

\* C2: concurrent decisions on one approval task are serialized: no decision
\* commits from a task status that another decision has already replaced.
C2_DecisionsSerialized ==
    \A t \in 1..Len(tasks) : ~tasks[t].raced

\* C3: an approval token authorizes at most one committed decision.
C3_TokenSingleUse ==
    \A k \in 1..Len(tokens) : tokens[k].uses <= 1

\* C4: at every commit, for every rule, at most one of its versions is
\* published.
C4_OnePublishedPerRule ==
    \A r \in RuleIds : Cardinality(Published(r)) <= 1

\* C5: at every commit there is at most one open exception record per
\* exception code of the invoice.
C5_OneOpenPerCode ==
    \A i, j \in 1..Len(excs) :
        (i # j /\ excs[i].code = excs[j].code /\ excs[i].status = "open")
            => excs[j].status # "open"

\* C6: at every commit the invoice has at most one MatchResult, and every
\* LineItemMatch row belongs to it: a re-run, also one concurrent with
\* another run, leaves no orphaned line match and no line match of a
\* replaced result.
C6_OneMatchResult ==
    /\ Cardinality(mrs) <= 1
    /\ \A l \in lims : \E m \in mrs : m.id = l.mr

\* A re-run has replaced the result of an earlier run, lines included
C6_Witness ==
    /\ Cardinality(MatchCompletedRows) >= 2
    /\ Cardinality(mrs) = 1
    /\ lims # {}
    /\ \E i \in MatchCompletedRows : \A m \in mrs : audit[i].op # m.id

\* C7: the writes of one match run are committed together: no committed
\* state holds a run's MatchResult without the run's audit entry.
C7_MatchRunOneCommit ==
    \A m \in mrs : \E i \in MatchCompletedRows : audit[i].op = m.id

\* C8: every committed change of the invoice status comes with an audit
\* entry, written in the same transaction, that records the new status.
C8_StatusChangeAudited ==
    [][inv'.status # inv.status =>
         /\ Len(audit') = Len(audit) + 1
         /\ audit'[Len(audit')].status = inv'.status]_vars

\* C9: audit rows are only ever inserted: every row written earlier is
\* still present, in place and unchanged, after every step.
C9_AuditAppendOnly ==
    [][/\ Len(audit') >= Len(audit)
       /\ SubSeq(audit', 1, Len(audit)) = audit]_vars

\* Several handlers have written rows after one another
C9_Witness ==
    /\ Len(audit) >= 4
    /\ MatchCompletedRows # {}
    /\ \E i \in 1..Len(audit) : audit[i].action = "manual_status_override"

\* C10: a pipeline run that starts on an invoice that is not in ingested
\* changes nothing of the invoice.
C10_PipelineOnlyFromIngested ==
    [][(PipelineStarts /\ inv.status # "ingested") => inv' = inv]_vars

\* C11: a decision is applied only to a task whose status is pending or
\* partially_approved: no decision is ever committed on a task that is
\* already approved or rejected, so an approval beyond required_count
\* changes nothing.
C11_OnlyOpenTasksDecided ==
    \A t \in 1..Len(tasks) : ~tasks[t].late

\* The tasks on which the step commits an approve decision
ApproveCommitted ==
    {t \in 1..Len(tasks) :
        Len(tasks'[t].approvers) = Len(tasks[t].approvers) + 1}

\* C12: a task is approved, and a decision approves its invoice, only when
\* the approve decisions committed on the task have reached required_count;
\* an approve that leaves the count below required_count sets the task to
\* partially_approved and leaves the invoice status unchanged.
C12_ApprovedAtRequiredCount ==
    [][/\ \A t \in 1..Len(tasks') :
             tasks'[t].status = "approved"
                 => Len(tasks'[t].approvers) >= tasks'[t].required
       /\ \A t \in ApproveCommitted :
             Len(tasks'[t].approvers) < tasks'[t].required
                 => /\ tasks'[t].status = "partially_approved"
                    /\ inv'.status = inv.status]_vars

\* A task that needs two approvals has received both and is approved, and
\* so is its invoice
C12_Witness ==
    \E t \in 1..Len(tasks) :
        /\ tasks[t].required = 2
        /\ tasks[t].status = "approved"
        /\ Len(tasks[t].approvers) = 2
        /\ inv.status = "approved"

\* C13: a task that requires two approvals is approved only by approve
\* decisions of two distinct actors: a second approve by the actor of the
\* first does not complete it.
C13_DualAuthorizationDistinct ==
    \A t \in 1..Len(tasks) :
        (tasks[t].required = 2 /\ tasks[t].status = "approved")
            => \E i, j \in 1..Len(tasks[t].approvers) :
                   tasks[t].approvers[i] # tasks[t].approvers[j]

\* The email-channel decisions the step accepts: the token was validated
EmailDecisionAccepted ==
    {p \in Procs : /\ sess[p].kind # "decision"
                   /\ sess'[p].kind = "decision"
                   /\ sess'[p].channel = "email"}

\* C14: an email-channel decision is accepted only before its token's
\* expiry time: presented at the expiry instant or later it fails and
\* changes nothing.
C14_ExpiredTokenRejected ==
    [][\A p \in EmailDecisionAccepted :
          now < tokens[TokenOf(sess'[p].task, sess'[p].action)].expires_at]_vars

\* The web-channel decisions the step accepts: the actor was validated
WebDecisionAccepted ==
    {p \in Procs : /\ sess[p].kind # "decision"
                   /\ sess'[p].kind = "decision"
                   /\ sess'[p].channel = "web"}

\* C15: a web-channel decision is accepted only from the task's assigned
\* approver or from an actor whose role is ADMIN; from any other actor it
\* fails and changes nothing.
C15_WebActorAssignedOrAdmin ==
    [][\A p \in WebDecisionAccepted :
          \/ sess'[p].actor = tasks[sess'[p].task].approver
          \/ Role(sess'[p].actor) = "ADMIN"]_vars

\* The match runs that return in the step, having written their MatchResult
RunsCompleted ==
    {p \in Procs : /\ sess[p].pc \in {"m_write", "m_audit"}
                   /\ sess'[p] = Finished(sess[p])
                   /\ \E m \in mrs' : m.id = sess[p].op}

\* C16: when a match run returns with its MatchResult in match_status
\* matched and the invoice total at most auto_approve_threshold, the invoice
\* is in status approved.
C16_AutoApprovedWithinThreshold ==
    [][\A p \in RunsCompleted : \A m \in mrs' :
          (/\ m.id = sess[p].op
           /\ m.match_status = "matched"
           /\ inv'.total <= AutoApproveThreshold)
              => inv'.status = "approved"]_vars

\* The run of session p has created an approval task
TaskCreatedBy(log, op) ==
    \E i \in 1..Len(log) :
        log[i].action = "approval_task_created" /\ log[i].op = op

\* C17: when a match run returns with its MatchResult in match_status
\* matched or partial and the invoice total above auto_approve_threshold,
\* the invoice is in status matched and the run has created an ApprovalTask.
C17_TaskCreatedAboveThreshold ==
    [][\A p \in RunsCompleted : \A m \in mrs' :
          (/\ m.id = sess[p].op
           /\ m.match_status \in {"matched", "partial"}
           /\ inv'.total > AutoApproveThreshold)
              => /\ inv'.status = "matched"
                 /\ TaskCreatedBy(audit', sess[p].op)]_vars

\* The component whose code the step runs.  One session moves per step; a
\* step that moves none is a handler that commits at once (payment, field
\* correction, dispute).
PipelineWrites ==
    \E p \in Procs : /\ sess'[p] # sess[p]
                     /\ "pipeline" \in {sess[p].kind, sess'[p].kind}
                     /\ sess[p].pc \notin {"m_write", "m_audit"}

EngineWrites ==
    \E p \in Procs : sess'[p] # sess[p] /\ sess[p].pc \in {"m_write", "m_audit"}

ApprovalWrites ==
    \E p \in Procs : sess'[p] # sess[p] /\ sess[p].kind = "decision"

OverrideWrites ==
    \E p \in Procs : sess'[p] # sess[p] /\ sess[p].kind = "override"

\* C18: a step that changes the invoice status to extracting, extracted or
\* matching is a step of the pipeline orchestrator, and to matched or
\* exception a step of the matching engine; the pipeline writes no other
\* status, the engine only matched, exception and approved, the approval
\* service only approved and rejected.  The admin override is exempt.
C18_StatusWriters ==
    [][(inv'.status # inv.status /\ ~OverrideWrites) =>
          /\ inv'.status \in {"extracting", "extracted", "matching"}
                 => PipelineWrites
          /\ inv'.status \in {"matched", "exception"} => EngineWrites
          /\ PipelineWrites
                 => inv'.status \in {"extracting", "extracted", "matching"}
          /\ EngineWrites
                 => inv'.status \in {"matched", "exception", "approved"}
          /\ ApprovalWrites => inv'.status \in {"approved", "rejected"}]_vars

\* C19: the admin status override changes the invoice status only along an
\* edge of the transition graph; a request for any other target is refused
\* and writes nothing.
C19_OverrideFollowsGraph ==
    [][OverrideWrites => IsEdge(inv.status, inv'.status)]_vars

\* C20: once a RuleVersion is published, no step changes its config or
\* returns it to draft or in_review: it stays published until a later
\* publication for the same rule marks it superseded.
C20_PublishedImmutable ==
    [][\A v \in 1..Len(rvs) :
          rvs[v].status = "published"
              => /\ rvs'[v].config = rvs[v].config
                 /\ rvs'[v].status \in {"published", "superseded"}]_vars


\* A pipeline job's matching step ends in its recovery handler
EngineFailsInPipeline(p) ==
    /\ sess[p].kind = "pipeline"
    /\ \/ sess[p].pc = "m_load" /\ sess'[p].pc = "p_ack"
       \/ sess[p].pc = "m_write" /\ sess'[p].pc = "p_retry"

\* C21: when the matching engine fails during a pipeline job, the job
\* returns normally (it is not retried) and the invoice is left in extracted.
C21_EngineFailureLeavesExtracted ==
    [][\A p \in Procs :
          EngineFailsInPipeline(p) =>
              /\ sess'[p] = Finished(sess[p])
              /\ inv'.status = "extracted"]_vars


----------------------------------------------------------------------------
(* Approver delegation *)

MaxDelegations == 2     \* UserDelegation rows per behaviour

\* valid_until is nullable: an open-ended delegation
NoDate == 0 - 1
\* Dates are days since the upload
Today == now \div 24
DelegFrom  == {0, 1}
DelegUntil == {1, NoDate}

\* set_delegation: an APPROVER only for themselves, an ADMIN for any user;
\* the delegator's active rows are deactivated, the new row is active
SetDelegation(current_user, user_id, delegate_id, valid_from, valid_until) ==
    /\ Len(delegs) < MaxDelegations
    /\ Role(current_user) \in {"APPROVER", "ADMIN"}
    /\ ~(Role(current_user) = "APPROVER" /\ current_user # user_id)
    /\ delegs' = Append(
          [i \in 1..Len(delegs) |->
              IF delegs[i].delegator_id = user_id /\ delegs[i].is_active
              THEN [delegs[i] EXCEPT !.is_active = FALSE]
              ELSE delegs[i]],
          [delegator_id |-> user_id, delegate_id |-> delegate_id,
           valid_from |-> valid_from, valid_until |-> valid_until,
           is_active |-> TRUE])
    /\ UNCHANGED <<invVars, beat, ruleVars, now, calc>>

\* remove_delegation: 404 without an active row
RemoveDelegation(current_user, user_id) ==
    /\ Role(current_user) \in {"APPROVER", "ADMIN"}
    /\ ~(Role(current_user) = "APPROVER" /\ current_user # user_id)
    /\ \E i \in 1..Len(delegs) :
           delegs[i].delegator_id = user_id /\ delegs[i].is_active
    /\ delegs' = [i \in 1..Len(delegs) |->
                    IF delegs[i].delegator_id = user_id
                    THEN [delegs[i] EXCEPT !.is_active = FALSE]
                    ELSE delegs[i]]
    /\ UNCHANGED <<invVars, beat, ruleVars, now, calc>>

NextDelegation ==
    \/ NextApproval
    \/ \E cu \in Users, d \in {"approver2"}, f \in DelegFrom, u \in DelegUntil :
           SetDelegation(cu, "approver", d, f, u)
    \/ \E cu \in Users : RemoveDelegation(cu, "approver")

SpecDelegation == InitApproval /\ [][NextDelegation]_vars

\* The active delegations of a user whose date range covers the day
ActiveDelegations(ds, user, day) ==
    {i \in 1..Len(ds) :
        /\ ds[i].delegator_id = user
        /\ ds[i].is_active
        /\ ds[i].valid_from <= day
        /\ (ds[i].valid_until = NoDate \/ ds[i].valid_until >= day)}

\* C22: a task created for an approver with an active delegation covering
\* the current date goes to the delegate and records the original approver
\* in delegated_to; without such a delegation it goes to the given approver.
C22_DelegationResolved ==
    [][Len(tasks') > Len(tasks) =>
          LET t  == tasks'[Len(tasks')]
              ad == ActiveDelegations(delegs, "approver", Today)
          IN  IF ad # {}
              THEN /\ \E i \in ad : t.approver = delegs[i].delegate_id
                   /\ t.delegated_to = "approver"
              ELSE /\ t.approver = "approver"
                   /\ t.delegated_to = "none"]_vars


\* C23: an approval task created by a match run requires two approvals
\* exactly when the invoice's fraud score, as committed when the task is
\* created, is at or above the critical threshold, and one otherwise.
C23_RequiredCountFromFraudScore ==
    [][Len(tasks') > Len(tasks) =>
          tasks'[Len(tasks')].required =
              (IF inv.fraud_score >= FraudCriticalThreshold THEN 2 ELSE 1)]_vars


----------------------------------------------------------------------------
(* The 2-way header check on its own *)

\* Invoice and PO totals around the tolerances, credit amounts included
HeaderInvTotals == {0 - 51, 0 - 30, 0, 1, 30, 50, 51, 4800}
HeaderPoTotals  == {0, 50, 4800}

InitHeader ==
    /\ InitInvoice /\ opLimit = MaxOps /\ InitRules
    /\ calc \in [inv_total : HeaderInvTotals, po_total : HeaderPoTotals,
                 lines : ExtractedLines, res : {NoRes}]

\* run_2way_match on a resolved PO: header check, line check, overall status
HeaderCheck ==
    /\ calc.res = NoRes
    /\ calc' = [calc EXCEPT !.res =
                  Match2Way([found |-> TRUE, total |-> calc.po_total],
                            calc.inv_total, calc.lines)]
    /\ UNCHANGED <<invVars, beat, ruleVars, now, delegs>>

NextHeader == HeaderCheck

SpecHeader == InitHeader /\ [][NextHeader]_vars

\* The run on a PO whose total is zero has been evaluated
ZeroPoChecked == calc.res # NoRes /\ calc.po_total = 0

\* C24 as stated: against a PO total of zero the header passes only for an
\* invoice total of zero; every other total gives exception and PRICE_VARIANCE.
C24_ZeroPoPassesOnlyZero ==
    ZeroPoChecked /\ calc.inv_total # 0 =>
        calc.res.ms = "exception" /\ "PRICE_VARIANCE" \in calc.res.codes

\* C24, amended: against a PO total of zero the header passes exactly when
\* the invoice total is within the absolute tolerance of zero; outside it the
\* run gives exception and PRICE_VARIANCE.
C24_ZeroPoPassesWithinAbsTolerance ==
    ZeroPoChecked =>
        IF Abs(calc.inv_total) <= AmountToleranceAbs
        THEN (\A i \in 1..Len(calc.lines) : calc.lines[i] = "ok") =>
                 calc.res.ms = "matched"
        ELSE calc.res.ms = "exception" /\ "PRICE_VARIANCE" \in calc.res.codes

C24_Witness ==
    ZeroPoChecked /\ calc.inv_total = 30 /\ calc.res.ms = "matched"


\* The pipeline's duplicate check found a match and recorded its exception
DuplicateFound(p) ==
    /\ sess[p].pc = "p_dup"
    /\ sess'[p].pc = "p_fraud"
    /\ excs' # excs

\* C25: when duplicate detection finds an exact or fuzzy match, the invoice's
\* is_duplicate flag is true once the check has committed.
C25_DuplicateFlagSet ==
    [][\A p \in Procs : DuplicateFound(p) => inv'.is_duplicate]_vars


\* C26: once total_amount is set, every later change to it is recorded by an
\* audit entry naming the old and the new value; no operation, a re-run of
\* the pipeline job included, alters it without such an entry.
C26_TotalChangesAudited ==
    [][(inv.total # 0 /\ inv'.total # inv.total) =>
          \E i \in (Len(audit) + 1)..Len(audit') :
              /\ audit'[i].action = "field_corrected"
              /\ audit'[i].field = "total_amount"
              /\ audit'[i].old = inv.total
              /\ audit'[i].new = inv'.total]_vars


\* A delivery of the pipeline job commits its extraction on an invoice whose
\* line items an earlier delivery has already stored
ReplayedExtraction(p) ==
    /\ sess[p].kind = "pipeline"
    /\ sess[p].pc = "p_extract"
    /\ sess'[p].pc = "p_audit2"
    /\ invLines # <<>>

\* C27: delivering the pipeline job again for an invoice is harmless: the
\* replay adds no InvoiceLineItem rows beyond those of the single delivery.
C27_ReplayAddsNoRows ==
    [][\A p \in Procs : ReplayedExtraction(p) => invLines' = invLines]_vars


\* A decision on an approval task is committed by request p
DecisionCommitted(p) == sess[p].pc = "a_commit" /\ sess'[p] = Idle

\* C28: a decision on an approval task changes the invoice's status only
\* when the invoice is in matched or exception; in any other status an
\* approve or reject leaves the invoice's status as it is.
C28_DecisionOnlyFromMatchedOrException ==
    [][\A p \in Procs :
          (DecisionCommitted(p) /\ inv'.status # inv.status) =>
              inv.status \in {"matched", "exception"}]_vars


\* The approval tasks of the invoice (all of step 1) that await a decision
UndecidedTasks ==
    {t \in 1..Len(tasks) : tasks[t].status \in {"pending", "partially_approved"}}

\* C29: the invoice has at most one undecided (pending or partially approved)
\* approval task at a time; a repeated match run ending in matched adds none
\* beside an existing one.
C29_AtMostOneUndecidedTask == Cardinality(UndecidedTasks) <= 1


----------------------------------------------------------------------------
(* The auto-approval gate on its own *)

\* Invoice totals on both sides of the auto-approve threshold
GateTotals == (AutoApproveThreshold - 10)..(AutoApproveThreshold + 10)
MatchStatuses == {"matched", "partial", "exception"}

InitGate ==
    /\ InitInvoice /\ opLimit = MaxOps /\ InitRules
    /\ calc \in [ms : MatchStatuses, inv_total : GateTotals, new : {"none"}]

\* _persist_match_result: the status the gate assigns to the invoice
GateApply ==
    /\ calc.new = "none"
    /\ calc' = [calc EXCEPT !.new = NewStatus(calc.ms, calc.inv_total)]
    /\ UNCHANGED <<invVars, beat, ruleVars, now, delegs>>

NextGate == GateApply

SpecGate == InitGate /\ [][NextGate]_vars

\* C30: the gate sets the invoice to exception in every case outside its
\* first two branches: for match_status exception, and for match_status
\* partial with a total at or below the auto-approve threshold.
C30_GateExceptionCases ==
    (/\ calc.new # "none"
     /\ \/ calc.ms = "exception"
        \/ calc.ms = "partial" /\ calc.inv_total <= AutoApproveThreshold)
        => calc.new = "exception"


\* The match run of session p commits its result and leaves the invoice in
\* status exception
RunLeavesException(p) ==
    /\ sess[p].pc = "m_write"
    /\ \E m \in mrs' \ mrs : m.id = sess[p].op
    /\ inv'.status = "exception"

\* C31: whenever a match run leaves the invoice in status exception, the same
\* committed state holds at least one open ExceptionRecord of the invoice,
\* also when only the header amount check failed.
C31_ExceptionHasOpenRecord ==
    [][\A p \in Procs :
          RunLeavesException(p) =>
              \E i \in 1..Len(excs') : excs'[i].status = "open"]_vars


----------------------------------------------------------------------------
(* The 2-way line check and the exception records of its result *)

MaxCalcLines == 2       \* invoice lines of one stand-alone line check

InitLines ==
    /\ InitInvoice /\ opLimit = MaxOps /\ InitRules
    /\ calc \in [inv_total : Amounts, po_total : {4800},
                 lines : SeqsUpTo(LineClasses, MaxCalcLines),
                 res : {NoRes}, excs : {<<>>}]

\* run_2way_match on a resolved PO, then the ExceptionRecord rows that
\* _persist_match_result creates for its result
LineCheck ==
    /\ calc.res = NoRes
    /\ LET res == Match2Way([found |-> TRUE, total |-> calc.po_total],
                            calc.inv_total, calc.lines)
       IN  calc' = [calc EXCEPT
                      !.res = res,
                      !.excs = EnsureAll(<<>>, PersistExceptionCodes(res))]
    /\ UNCHANGED <<invVars, beat, ruleVars, now, delegs>>

NextLines == LineCheck

SpecLines == InitLines /\ [][NextLines]_vars

\* C32: a paired line on which both the quantity and the price check fail gets
\* status qty_variance, and both a QTY_VARIANCE and a PRICE_VARIANCE exception
\* are recorded for the invoice.
C32_BothFailBothRecorded ==
    calc.res # NoRes =>
        \A i \in 1..Len(calc.lines) :
            calc.lines[i] = "both" =>
                /\ calc.res.lines[i].status = "qty_variance"
                /\ HasOpen(calc.excs, "QTY_VARIANCE")
                /\ HasOpen(calc.excs, "PRICE_VARIANCE")


----------------------------------------------------------------------------
(* The active-rule lookup of a match run *)

\* json.loads succeeds on every stored config; config.setdefault needs an
\* object and raises AttributeError on any other JSON value
ParsesToObject(cfg) == cfg # "reviewed_list"

\* get_active_match_rules: the published version created last (the rows are
\* in creation order), its config when it can be read, DEFAULT_TOLERANCE
\* otherwise; id 0 stands for None
GetActiveMatchRules(rows) ==
    LET pub == {v \in 1..Len(rows) : rows[v].status = "published"}
    IN  IF pub = {} THEN [config |-> "default", rule_version_id |-> 0]
        ELSE LET rv == CHOOSE v \in pub : \A w \in pub : w <= v
             IN  IF ParsesToObject(rows[rv].config)
                 THEN [config |-> rows[rv].config, rule_version_id |-> rv]
                 ELSE [config |-> "default", rule_version_id |-> rv]

\* run_2way_match / run_3way_match: the tolerance config the run uses and the
\* rule_version_id it passes on to its MatchResult and audit entry
LookupActiveRules ==
    /\ calc = NoCalc
    /\ calc' = GetActiveMatchRules(rvs)
    /\ UNCHANGED <<invVars, beat, ruleVars, now, delegs>>

\* The rules endpoints and job of the source, and match runs looking up rules
NextLookup ==
    \/ UploadPolicy
    \/ \E v \in 1..Len(rvs) : ExtractRulesLoad(v)
    \/ \E v \in 1..Len(rvs) : ExtractRulesCommit(v)
    \/ \E v \in 1..Len(rvs), cfg \in ReviewedConfigs : UpdateRule(v, cfg)
    \/ \E v \in 1..Len(rvs) : RejectRule(v)
    \/ \E p \in Procs, v \in 1..Len(rvs) : PublishLoad(p, v)
    \/ \E p \in Procs : PublishCommit(p)
    \/ LookupActiveRules

SpecLookup == Init /\ [][NextLookup]_vars

\* A match run looks up its rules in this step
LookupStep == calc = NoCalc /\ calc' # NoCalc

PublishedVersions == {v \in 1..Len(rvs) : rvs[v].status = "published"}

\* C33: when the config of the published rule version cannot be parsed, the
\* match run uses the default config and records a null rule-version
\* identifier.
C33_ParseFailureNullVersion ==
    [][(/\ LookupStep
        /\ \E v \in PublishedVersions : calc'.rule_version_id = v
        /\ \A v \in PublishedVersions : ~ParsesToObject(rvs[v].config))
           => /\ calc'.config = "default"
              /\ calc'.rule_version_id = 0]_vars

\* The published version with the latest published-at timestamp
LatestPublished ==
    CHOOSE v \in PublishedVersions :
        \A w \in PublishedVersions : rvs[w].published_at <= rvs[v].published_at

\* C34: the lookup returns the identifier of the published version with the
\* latest published-at timestamp, or the default config with a null
\* identifier when no version is published.
C34_LookupLatestPublished ==
    [][LookupStep =>
          IF PublishedVersions = {}
          THEN calc'.config = "default" /\ calc'.rule_version_id = 0
          ELSE calc'.rule_version_id = LatestPublished]_vars


----------------------------------------------------------------------------
(* Which engine a matching request runs *)

\* How the engine resolves the invoice's PO: by invoice.po_id, by a PO-number
\* pattern in the notes or in the invoice number, or not at all
PoResolutions == {"id", "notes", "number", "none"}
\* The goods receipts of that PO: none, only soft-deleted ones, or live ones
GrnRows == GrnStates \cup {"deleted"}
Callers == {"pipeline", "rematch"}
\* trigger_match's match_type parameter; the pipeline has none (auto)
MatchTypes == {"auto", "2way", "3way"}

\* process_invoice calls run_2way_match; trigger_match in auto mode looks
\* for a live GRN of invoice.po_id, and otherwise runs what was asked for
SelectStrategy(caller, match_type, po_by, grn) ==
    IF caller = "pipeline" THEN "2way"
    ELSE IF match_type = "auto"
         THEN IF po_by = "id" /\ grn \in {"short", "full"}
              THEN "3way" ELSE "2way"
         ELSE match_type

InitStrategy ==
    /\ InitInvoice /\ opLimit = MaxOps /\ InitRules
    /\ calc \in [caller : Callers, match_type : MatchTypes,
                 po_by : PoResolutions, grn : GrnRows, mtype : {"none"}]
    /\ calc.caller = "pipeline" => calc.match_type = "auto"

StartMatching ==
    /\ calc.mtype = "none"
    /\ calc' = [calc EXCEPT !.mtype =
                  SelectStrategy(calc.caller, calc.match_type,
                                 calc.po_by, calc.grn)]
    /\ UNCHANGED <<invVars, beat, ruleVars, now, delegs>>

NextStrategy == StartMatching

SpecStrategy == InitStrategy /\ [][NextStrategy]_vars

\* C35: matching started by the pipeline and matching started by the re-match
\* endpoint in auto mode run the 3-way match exactly when the PO resolved for
\* the invoice, by identifier or by pattern, has a non-deleted GRN, and the
\* 2-way match otherwise.
C35_AutoSelectsByGrn ==
    (calc.mtype # "none" /\ calc.match_type = "auto") =>
        IF calc.po_by # "none" /\ calc.grn \in {"short", "full"}
        THEN calc.mtype = "3way"
        ELSE calc.mtype = "2way"


\* C36: a rule version that is rejected or superseded never changes status
\* again; the policy-extraction job finishing afterwards does not return it
\* to in_review.
C36_RejectedSupersededFinal ==
    [][\A v \in 1..Len(rvs) :
          rvs[v].status \in {"rejected", "superseded"} =>
              rvs'[v].status = rvs[v].status]_vars


----------------------------------------------------------------------------
(* Periodic jobs: celery beat, the worker pool, the mailbox poll *)

MaxTicks == 3       \* schedule ticks of beat per behaviour

\* Invoice attachments (.pdf, .png, .jpg) carried by a message
AttachmentsOf(m) == IF m = "m1" THEN 1 ELSE 2

\* A mail is dropped into /app/data/inbox as an .eml file
MailArrives(m) ==
    /\ m \notin beat.inbox
    /\ beat.invoices[m] = 0
    /\ beat' = [beat EXCEPT !.inbox = @ \cup {m}]
    /\ UNCHANGED <<invVars, ruleVars, now, delegs, calc>>

\* celery beat: at a tick of the job's crontab it publishes one task message
BeatTick(j) ==
    /\ beat.ticks < MaxTicks
    /\ beat' = [beat EXCEPT !.queue[j] = @ + 1, !.ticks = @ + 1]
    /\ UNCHANGED <<invVars, ruleVars, now, delegs, calc>>

\* A free process of the worker pool takes a message of the job; the poll
\* globs the inbox for its .eml files
PeriodicStart(p, j) ==
    /\ beat.queue[j] > 0
    /\ beat.exec[p] = NoExec
    /\ \A q \in Procs : q < p => beat.exec[q] # NoExec
    /\ beat' = [beat EXCEPT
                  !.queue[j] = @ - 1,
                  !.exec[p] = [job |-> j,
                               files |-> IF j = "poll_ap_mailbox"
                                         THEN beat.inbox ELSE {}]]
    /\ UNCHANGED <<invVars, ruleVars, now, delegs, calc>>

\* _process_eml: per attachment an Invoice row (status ingested), its audit
\* row, commit, process_invoice.delay; the file stays where it is
ProcessEml(p, m) ==
    /\ beat.exec[p].job = "poll_ap_mailbox"
    /\ m \in beat.exec[p].files
    /\ beat' = [beat EXCEPT
                  !.invoices[m] = @ + AttachmentsOf(m),
                  !.enqueued = @ + AttachmentsOf(m),
                  !.exec[p].files = @ \ {m}]
    /\ UNCHANGED <<invVars, ruleVars, now, delegs, calc>>

\* The task function returns
PeriodicFinish(p) ==
    /\ beat.exec[p] # NoExec
    /\ beat.exec[p].files = {}
    /\ beat' = [beat EXCEPT !.exec[p] = NoExec]
    /\ UNCHANGED <<invVars, ruleVars, now, delegs, calc>>

NextBeat ==
    \/ \E m \in Msgs : MailArrives(m)
    \/ \E j \in PeriodicJobs : BeatTick(j)
    \/ \E p \in Procs, j \in PeriodicJobs : PeriodicStart(p, j)
    \/ \E p \in Procs, m \in Msgs : ProcessEml(p, m)
    \/ \E p \in Procs : PeriodicFinish(p)

SpecBeat == Init /\ [][NextBeat]_vars

Running(j) == {p \in Procs : beat.exec[p].job = j}

\* C38: two executions of the same periodic job never overlap: an execution
\* has run to completion before the next execution of that job starts.
C38_NoOverlappingExecutions ==
    \A j \in PeriodicJobs : Cardinality(Running(j)) <= 1


----------------------------------------------------------------------------
(* Retries of the pipeline job: Task.retry of the bound task *)

\* @celery_app.task(..., max_retries=3)
MaxRetries == 3

RetryLevels == 0 .. MaxRetries

\* process_invoice.delay: one message whose request.retries is 0
InitRetry ==
    /\ InitInvoice
    /\ opLimit = MaxOps
    /\ InitRules
    /\ now = 0
    /\ calc = [queue |-> [r \in RetryLevels |-> IF r = 0 THEN 1 ELSE 0],
               pc |-> "idle", retries |-> 0, status |-> "ingested",
               executions |-> 0, published |-> 0, failed |-> 0]

\* self.retry(exc=...): past max_retries it raises exc; otherwise it
\* publishes the message again with retries + 1 and raises Retry, which is
\* an Exception
SelfRetry(c) ==
    IF c.retries + 1 > MaxRetries
    THEN c
    ELSE [c EXCEPT !.queue[c.retries + 1] = @ + 1, !.published = @ + 1]

\* A worker takes a message: fetch, status := extracting, commit
RetryStart(r) ==
    /\ calc.pc = "idle"
    /\ calc.queue[r] > 0
    /\ calc' = [calc EXCEPT !.queue[r] = @ - 1, !.pc = "download",
                            !.retries = r, !.status = "extracting",
                            !.executions = @ + 1, !.published = 0]
    /\ UNCHANGED <<invVars, beat, ruleVars, now, delegs>>

\* The download fails: raise self.retry(exc=exc, countdown=30), inside the
\* outer try
RetryDownloadFails ==
    /\ calc.pc = "download"
    /\ calc' = [SelfRetry(calc) EXCEPT !.pc = "outer"]
    /\ UNCHANGED <<invVars, beat, ruleVars, now, delegs>>

\* The download succeeds
RetryDownloaded ==
    /\ calc.pc = "download"
    /\ calc' = [calc EXCEPT !.pc = "body"]
    /\ UNCHANGED <<invVars, beat, ruleVars, now, delegs>>

\* Any other statement of the body raises, before the final status is set
RetryBodyFails ==
    /\ calc.pc = "body"
    /\ calc' = [calc EXCEPT !.pc = "outer"]
    /\ UNCHANGED <<invVars, beat, ruleVars, now, delegs>>

\* The body runs to its return statement
RetryReturns(final) ==
    /\ calc.pc = "body"
    /\ calc' = [calc EXCEPT !.pc = "idle", !.status = final]
    /\ UNCHANGED <<invVars, beat, ruleVars, now, delegs>>

\* except Exception as exc: db.rollback(); raise self.retry(exc=exc,
\* countdown=60).  The execution ends: retried, or failed past max_retries
RetryOuterHandler ==
    /\ calc.pc = "outer"
    /\ calc' = [SelfRetry(calc) EXCEPT
                  !.pc = "idle",
                  !.failed = IF calc.retries + 1 > MaxRetries
                             THEN @ + 1 ELSE @]
    /\ UNCHANGED <<invVars, beat, ruleVars, now, delegs>>

NextRetry ==
    \/ \E r \in RetryLevels : RetryStart(r)
    \/ RetryDownloadFails
    \/ RetryDownloaded
    \/ RetryBodyFails
    \/ \E final \in {"extracted", "exception"} : RetryReturns(final)
    \/ RetryOuterHandler

SpecRetry == InitRetry /\ [][NextRetry]_vars

\* C39: an enqueued pipeline job is executed at most 1 + 3 times, and an
\* execution that fails schedules at most one further execution.
C39_BoundedRetries ==
    /\ calc.executions <= 1 + MaxRetries
    /\ calc.published <= 1


----------------------------------------------------------------------------
(* Status of the invoice when the pipeline job returns *)

\* Process p's pipeline job reaches its return statement in this step
ReturnsNormally(p) ==
    /\ sess[p].kind = "pipeline"
    /\ sess[p].pc # "p_ack"
    /\ sess'[p].kind = "pipeline"
    /\ sess'[p].pc = "p_ack"

\* C40: when an execution of the pipeline job returns normally the invoice
\* is not in a transient status (extracting, matching).
C40_ReturnLeavesSettledStatus ==
    [][\A p \in Procs :
         ReturnsNormally(p) => inv'.status \notin {"extracting", "matching"}]_vars

====
